---- MODULE Spec2Model ----
(***************************************************************************)
(* A model of llvm/lib/System/Win32/Path.cpp: the Path string value, its   *)
(* validity predicate, the component mutators (set/append/elide), the      *)
(* library search GetLibraryPath, the cached GetTemporaryDirectory and     *)
(* createDirectory.  Strings are sequences of one-character strings and    *)
(* positions are 0-based as in std::string.                                *)
(***************************************************************************)
EXTENDS Integers, Sequences, FiniteSets, TLC

\* ------------------------------------------------------------------ bounds
\* Longest path string built under Spec.
MaxLen == 4
\* Longest path string built under SpecTrip.
TripLen == 6
\* Longest string argument handed to a mutator.
MaxArg == 2

\* ----------------------------------------------------------- std::string
\* std::string::npos, size_t(-1).  The code orders a position against another
\* only after testing it against npos, so the value is never compared by <.
NPOS == -1

\* s[i] with the 0-based index of std::string.
At(s, i) == s[i + 1]

\* std::string::rfind(c, from): the last position <= from holding c, or npos.
RFind(s, c, from) ==
  LET hits == {i \in 0 .. (Len(s) - 1) : i <= from /\ At(s, i) = c}
  IN  IF hits = {} THEN NPOS
      ELSE CHOOSE i \in hits : \A j \in hits : j <= i

\* std::string::erase(pos): drops everything from position pos on.
Erase(s, pos) == SubSeq(s, 1, pos)

\* isalpha() in the C locale.
Alpha == {"a", "b", "c", "d", "e", "f", "g", "h", "i", "j", "k", "l", "m",
          "n", "o", "p", "q", "r", "s", "t", "u", "v", "w", "x", "y", "z",
          "A", "B", "C", "D", "E", "F", "G", "H", "I", "J", "K", "L", "M",
          "N", "O", "P", "Q", "R", "S", "T", "U", "V", "W", "X", "Y", "Z"}

isalpha(c) == c \in Alpha

\* The argument of find_first_of in isValid; "ctl" stands for the control
\* characters \001 .. \037, none of which the alphabet below contains.
IllegalChars == {"\\", "<", ">", "\"", "|", "ctl"}

\* The characters the mutator specifications draw their arguments from: the
\* separator, the backslash FlipBackSlashes rewrites, the characters isValid
\* treats specially and one letter.
Chars == {"/", "\\", ".", " ", ":", "a"}

RECURSIVE StringsUpTo(_)
StringsUpTo(n) ==
  IF n = 0 THEN {<< >>}
  ELSE LET shorter == StringsUpTo(n - 1)
       IN  shorter \cup {Append(s, c) : s \in {t \in shorter : Len(t) = n - 1}, c \in Chars}

Args == StringsUpTo(MaxArg)

\* ------------------------------------------------------------------ Path
FlipBackSlashes(s) == [i \in 1 .. Len(s) |-> IF s[i] = "\\" THEN "/" ELSE s[i]]

isValid(p) ==
  IF p = << >> THEN FALSE
  ELSE
    LET len == Len(p)
        pos == RFind(p, ":", len)
    IN  /\ (pos # NPOS => ~(pos # 1 \/ ~isalpha(At(p, 0)) \/ len < 3))
        /\ \A i \in 0 .. (len - 1) : At(p, i) \notin IllegalChars
        /\ At(p, len - 1) # "."
        /\ ~(len >= 2 /\ At(p, len - 2) = "." /\ At(p, len - 1) = "/")
        /\ At(p, len - 1) # " "
        /\ ~(len >= 2 /\ At(p, len - 2) = " " /\ At(p, len - 1) = "/")

isFile(p) == isValid(p) /\ At(p, Len(p) - 1) # "/"

isDirectory(p) == isValid(p) /\ At(p, Len(p) - 1) = "/"

\* What a bool-returning mutator leaves behind: the string and the result.
Out(p, r) == [path |-> p, ret |-> r]

\* Mutant of Commit: the rollback "path = save.path" is forgotten.
CommitNoRollback(save, new) == IF ~isValid(new) THEN Out(new, FALSE) ELSE Out(new, TRUE)

\* The validate-or-roll-back tail shared by the set and append mutators.
Commit(save, new) == IF ~isValid(new) THEN Out(save, FALSE) ELSE Out(new, TRUE)

setDirectory(p, a_path) ==
  IF Len(a_path) = 0 THEN Out(p, FALSE)
  ELSE
    LET flipped == FlipBackSlashes(a_path)
        last == Len(a_path) - 1
        new == IF last # 0 /\ At(a_path, last) # "/"
               THEN Append(flipped, "/") ELSE flipped
    IN  Commit(p, new)

\* The loop of setFile: step back over the trailing '/' of a_path.
RECURSIVE SkipSlashes(_, _)
SkipSlashes(a_path, last) ==
  IF last > 0 /\ At(a_path, last) = "/" THEN SkipSlashes(a_path, last - 1)
  ELSE last

setFile(p, a_path) ==
  IF Len(a_path) = 0 THEN Out(p, FALSE)
  ELSE
    LET flipped == FlipBackSlashes(a_path)
        last == SkipSlashes(a_path, Len(a_path) - 1)
    IN  Commit(p, Erase(flipped, last + 1))

appendDirectory(p, dir) ==
  IF isFile(p) THEN Out(p, FALSE)
  ELSE Commit(p, Append(p \o dir, "/"))

elideDirectory(p) ==
  IF isFile(p) THEN Out(p, FALSE)
  ELSE
    LET slashpos == RFind(p, "/", Len(p))
    IN  IF slashpos = 0 \/ slashpos = NPOS THEN Out(p, FALSE)
        ELSE
          LET slashpos2 == IF slashpos = Len(p) - 1
                           THEN RFind(p, "/", slashpos - 1) ELSE slashpos
          IN  IF slashpos2 = NPOS THEN Out(p, FALSE)
              ELSE Out(Erase(p, slashpos2), TRUE)

appendFile(p, file) ==
  IF ~isDirectory(p) THEN Out(p, FALSE)
  ELSE Commit(p, p \o file)

\* Mutant of elideFile: erase(slashpos) in place of erase(slashpos+1).
elideFileDropSlash(p) ==
  IF isDirectory(p) THEN Out(p, FALSE)
  ELSE
    LET slashpos == RFind(p, "/", Len(p))
    IN  IF slashpos = NPOS THEN Out(p, FALSE)
        ELSE Out(Erase(p, slashpos), TRUE)

elideFile(p) ==
  IF isDirectory(p) THEN Out(p, FALSE)
  ELSE
    LET slashpos == RFind(p, "/", Len(p))
    IN  IF slashpos = NPOS THEN Out(p, FALSE)
        ELSE Out(Erase(p, slashpos + 1), TRUE)

appendSuffix(p, suffix) ==
  IF isDirectory(p) THEN Out(p, FALSE)
  ELSE Commit(p, (p \o <<".">>) \o suffix)

elideSuffix(p) ==
  IF isDirectory(p) THEN Out(p, FALSE)
  ELSE
    LET dotpos == RFind(p, ".", Len(p))
        slashpos == RFind(p, "/", Len(p))
    IN  IF slashpos # NPOS /\ dotpos # NPOS /\ dotpos > slashpos
        THEN Out(Erase(p, dotpos), TRUE)
        ELSE Out(p, FALSE)

\* ------------------------------------------------------- mutator calls
VARIABLES
  path,   \* Path::path of the object under test
  op,     \* the mutator called last ("none" before the first call)
  ret,    \* what that call returned
  log,    \* SpecTrip: the calls of the caller's sequence so far
  files,      \* SpecLib: the path strings readable() answers true for
  basename,   \* SpecLib: GetLibraryPath's first argument
  LibPaths,   \* SpecLib: GetLibraryPath's second argument
  result,     \* SpecLib: the string of the Path GetLibraryPath returned
  probes,     \* SpecLib: the strings readable() was asked about, in order
  libCalls,   \* SpecLib: the calls of GetLibraryPath made
  disk,       \* the directories that exist, as canonical keys ("/a/b/")
  mkPath,     \* SpecMkdir: the string of the Path createDirectory ran on
  mkParents,  \* SpecMkdir: its create_parents argument
  mkRefuse,   \* SpecMkdir: which CreateDirectory call the system refuses (0: none)
  mkOutcome,  \* SpecMkdir: "true", "false", "throw" ("none" before the call)
  mkCalls,    \* SpecMkdir: the calls of createDirectory made
  TempDirectory,  \* the static Path *TempDirectory: NULL or the cached string
  pid,        \* GetCurrentProcessId(), as the digit sprintf prints
  pc,         \* per thread: where it is in GetTemporaryDirectory
  local,      \* per thread: the string of its local Path result
  returned,   \* per thread: what its last call returned (None, Thrown)
  touched,    \* per thread: destroyDirectory/createDirectory calls of its call
  done,       \* the calls that returned normally: [path, touched, thread]
  calls,      \* the calls of GetTemporaryDirectory begun
  inits       \* the destroy-then-create sequences completed

pathVars == <<path, op, ret>>
libVars == <<files, basename, LibPaths, result, probes, libCalls>>
mkVars == <<disk, mkPath, mkParents, mkRefuse, mkOutcome, mkCalls>>
tmpVars == <<TempDirectory, pid, pc, local, returned, touched, done, calls, inits>>
vars == <<path, op, ret, log, files, basename, LibPaths, result, probes, libCalls,
          disk, mkPath, mkParents, mkRefuse, mkOutcome, mkCalls,
          TempDirectory, pid, pc, local, returned, touched, done, calls, inits>>

\* The null pointer, and the two results of a call that are not a Path.
NULL == <<"NULL">>
None == <<"none">>
Thrown == <<"throw">>

\* The threads that call GetTemporaryDirectory.
Threads == {1, 2}

\* One call of a mutator on the Path object; out is what the mutator computes
\* from the string it finds.
Call(name, out) ==
  /\ path' = out.path
  /\ ret' = out.ret
  /\ op' = name

\* Under Spec the calls are those that leave at most MaxLen characters.
Fits(out) == Len(out.path) <= MaxLen

SetDirectory ==
  \E a \in Args : Fits(setDirectory(path, a)) /\ Call("setDirectory", setDirectory(path, a))
SetFile ==
  \E a \in Args : Fits(setFile(path, a)) /\ Call("setFile", setFile(path, a))
AppendDirectory ==
  \E a \in Args : /\ Fits(appendDirectory(path, a))
                  /\ Call("appendDirectory", appendDirectory(path, a))
ElideDirectory == Call("elideDirectory", elideDirectory(path))
AppendFile ==
  \E a \in Args : Fits(appendFile(path, a)) /\ Call("appendFile", appendFile(path, a))
ElideFile == Call("elideFile", elideFile(path))
AppendSuffix ==
  \E a \in Args : Fits(appendSuffix(path, a)) /\ Call("appendSuffix", appendSuffix(path, a))
ElideSuffix == Call("elideSuffix", elideSuffix(path))

\* Path::Path(): the empty path, no call made yet.
InitPath ==
  /\ path = << >>
  /\ op = "none"
  /\ ret = FALSE

\* The variables of the other specifications, at rest.
IdleTrip == log = << >>
IdleLib ==
  /\ files = {}
  /\ basename = << >>
  /\ LibPaths = << >>
  /\ result = << >>
  /\ probes = << >>
  /\ libCalls = 0
IdleMkdir ==
  /\ disk = {}
  /\ mkPath = << >>
  /\ mkParents = FALSE
  /\ mkRefuse = 0
  /\ mkOutcome = "none"
  /\ mkCalls = 0
IdleTemp ==
  /\ TempDirectory = NULL
  /\ pid = "1"
  /\ pc = [t \in Threads |-> "idle"]
  /\ local = [t \in Threads |-> << >>]
  /\ returned = [t \in Threads |-> None]
  /\ touched = [t \in Threads |-> 0]
  /\ done = << >>
  /\ calls = 0
  /\ inits = 0

Init ==
  /\ InitPath
  /\ IdleTrip
  /\ IdleLib
  /\ IdleMkdir
  /\ IdleTemp

\* Any mutator, with any argument, in any order.
Next ==
  \/ SetDirectory /\ UNCHANGED <<log, libVars, mkVars, tmpVars>>
  \/ SetFile /\ UNCHANGED <<log, libVars, mkVars, tmpVars>>
  \/ AppendDirectory /\ UNCHANGED <<log, libVars, mkVars, tmpVars>>
  \/ ElideDirectory /\ UNCHANGED <<log, libVars, mkVars, tmpVars>>
  \/ AppendFile /\ UNCHANGED <<log, libVars, mkVars, tmpVars>>
  \/ ElideFile /\ UNCHANGED <<log, libVars, mkVars, tmpVars>>
  \/ AppendSuffix /\ UNCHANGED <<log, libVars, mkVars, tmpVars>>
  \/ ElideSuffix /\ UNCHANGED <<log, libVars, mkVars, tmpVars>>

Spec == Init /\ [][Next]_vars

\* ---------------------------------------------- a caller's call sequences
\* A caller that builds a directory with setDirectory and then either appends
\* and elides a directory, or appends a file and a suffix and elides both
\* again, going on after each call that returned true (the && chains of
\* IsLibrary).  log keeps every call made: its argument, result and the
\* string it left.
TripCall(name, a, out) ==
  /\ Len(out.path) <= TripLen
  /\ Call(name, out)
  /\ UNCHANGED <<libVars, mkVars, tmpVars>>
  /\ log' = Append(log, [op |-> name, arg |-> a, ret |-> out.ret, path |-> out.path])

Done(n, name) == Len(log) = n /\ log[n].op = name /\ log[n].ret

TripSetDirectory ==
  /\ log = << >>
  /\ \E a \in Args : TripCall("setDirectory", a, setDirectory(path, a))

TripAppendDirectory ==
  /\ Done(1, "setDirectory")
  /\ \E a \in Args : TripCall("appendDirectory", a, appendDirectory(path, a))

TripElideDirectory ==
  /\ Done(2, "appendDirectory")
  /\ TripCall("elideDirectory", << >>, elideDirectory(path))

TripAppendFile ==
  /\ Done(1, "setDirectory")
  /\ \E a \in Args : TripCall("appendFile", a, appendFile(path, a))

TripAppendSuffix ==
  /\ Done(2, "appendFile")
  /\ \E a \in Args : TripCall("appendSuffix", a, appendSuffix(path, a))

TripElideSuffix ==
  /\ Done(3, "appendSuffix")
  /\ TripCall("elideSuffix", << >>, elideSuffix(path))

TripElideFile ==
  /\ Len(log) = 4
  /\ TripCall("elideFile", << >>, elideFile(path))

NextTrip ==
  \/ TripSetDirectory
  \/ TripAppendDirectory
  \/ TripElideDirectory
  \/ TripAppendFile
  \/ TripAppendSuffix
  \/ TripElideSuffix
  \/ TripElideFile

SpecTrip == Init /\ [][NextTrip]_vars

\* ------------------------------------------------------- GetLibraryPath
\* Largest number of readable files in the modelled file system.
MaxFiles == 2
\* Longest caller-supplied list of library directories.
MaxLibPaths == 2
\* Calls of GetLibraryPath in one run (the function keeps no state).
MaxLibCalls == 1

LibPrefix == <<"l", "i", "b">>
GetDLLSuffix == <<"d", "l", "l">>
SuffixA == <<"a">>
SuffixO == <<"o">>
SuffixBC == <<"b", "c">>
UsrLibDir == <<"/", "u", "s", "r", "/", "l", "i", "b", "/">>
LibDir == <<"/", "l", "i", "b", "/">>

\* Path::readable(): GetFileAttributes answers for the path string.
readable(fs, p) == p \in fs

\* Sequencing: F applied to the value of v, v evaluated once.
Then(v, F(_)) == CHOOSE r \in {F(x) : x \in {v}} : TRUE

\* One "path.appendSuffix(sfx) && path.readable()" of IsLibrary, preceded by
\* "path.elideSuffix() &&" when elide is set.  st is [path, hit, probes].
TrySuffix(fs, st, elide, sfx) ==
  IF st.hit THEN st
  ELSE
    LET e == IF elide THEN elideSuffix(st.path) ELSE Out(st.path, TRUE)
    IN  IF ~e.ret THEN [st EXCEPT !.path = e.path]
        ELSE
          LET a == appendSuffix(e.path, sfx)
          IN  IF ~a.ret THEN [st EXCEPT !.path = a.path]
              ELSE [path |-> a.path,
                    hit |-> readable(fs, a.path),
                    probes |-> Append(st.probes, a.path)]

\* The if / else-if chain over the four suffixes.
TrySuffixes(fs, p, seen) ==
  Then([path |-> p, hit |-> FALSE, probes |-> seen],
       LAMBDA s0 : Then(TrySuffix(fs, s0, FALSE, GetDLLSuffix),
       LAMBDA s1 : Then(TrySuffix(fs, s1, TRUE, SuffixA),
       LAMBDA s2 : Then(TrySuffix(fs, s2, TRUE, SuffixO),
       LAMBDA s3 : TrySuffix(fs, s3, TRUE, SuffixBC)))))

\* IsLibrary(path, basename): [path, hit, probes]; the path is cleared when
\* nothing was found.
IsLibrary(fs, p, base, seen) ==
  LET withLib == appendFile(p, LibPrefix \o base)
      tried ==
        IF withLib.ret THEN TrySuffixes(fs, withLib.path, seen)
        ELSE
          LET e == elideFile(withLib.path)
          IN  IF ~e.ret THEN [path |-> e.path, hit |-> FALSE, probes |-> seen]
              ELSE
                LET bare == appendFile(e.path, base)
                IN  IF ~bare.ret
                    THEN [path |-> bare.path, hit |-> FALSE, probes |-> seen]
                    ELSE TrySuffixes(fs, bare.path, seen)
  IN  Then(tried, LAMBDA t : IF t.hit THEN t ELSE [t EXCEPT !.path = << >>])

\* "result.setDirectory(dir) && IsLibrary(result, basename)" for one
\* directory; st is [path, hit, probes].
TryDirectory(fs, st, dir, base) ==
  IF st.hit THEN st
  ELSE Then(setDirectory(st.path, dir),
            LAMBDA d : IF ~d.ret THEN [st EXCEPT !.path = d.path]
                       ELSE IsLibrary(fs, d.path, base, st.probes))

\* The loop over LibPaths.
RECURSIVE TryDirectories(_, _, _, _)
TryDirectories(fs, st, dirs, base) ==
  IF dirs = << >> THEN st
  ELSE Then(TryDirectory(fs, st, Head(dirs), base),
            LAMBDA s1 : TryDirectories(fs, s1, Tail(dirs), base))

GetLibraryPath(fs, base, dirs) ==
  Then([path |-> << >>, hit |-> FALSE, probes |-> << >>],
       LAMBDA s0 : Then(TryDirectories(fs, s0, dirs, base),
       LAMBDA s1 : Then(TryDirectory(fs, s1, UsrLibDir, base),
       LAMBDA s2 : Then(TryDirectory(fs, s2, LibDir, base),
       LAMBDA s3 : IF s3.hit THEN s3 ELSE [s3 EXCEPT !.path = << >>]))))

\* The arguments and the file system the search is run on: a plain name and
\* one ending in a space; a directory with and without its trailing '/' and
\* the empty string; at most MaxFiles readable files among the eight forms of
\* the plain name in the caller's and the system directories.
Basenames == {<<"f">>, <<"f", " ">>}
CallerDirs == {<<"/", "x", "/">>, <<"/", "y">>, << >>}
SearchedDirs == {<<"/", "x", "/">>, <<"/", "y", "/">>, UsrLibDir, LibDir}
Suffixes == <<GetDLLSuffix, SuffixA, SuffixO, SuffixBC>>

\* The eight candidate names of a basename, in the documented order.
Forms(base) ==
  [i \in 1 .. 8 |->
     IF i <= 4 THEN ((LibPrefix \o base) \o <<".">>) \o Suffixes[i]
     ELSE (base \o <<".">>) \o Suffixes[i - 4]]

FileUniverse == {d \o Forms(<<"f">>)[i] : d \in SearchedDirs, i \in 1 .. 8}

RECURSIVE SeqsUpTo(_, _)
SeqsUpTo(S, n) ==
  IF n = 0 THEN {<< >>}
  ELSE LET shorter == SeqsUpTo(S, n - 1)
       IN  shorter \cup {Append(q, x) : q \in {t \in shorter : Len(t) = n - 1}, x \in S}

\* The subsets of S with at most n elements.
RECURSIVE SubsetsUpTo(_, _)
SubsetsUpTo(S, n) ==
  IF n = 0 THEN {{}}
  ELSE LET smaller == SubsetsUpTo(S, n - 1)
       IN  smaller \cup {fs \cup {x} : fs \in smaller, x \in S}

InitLib ==
  /\ files \in SubsetsUpTo(FileUniverse, MaxFiles)
  /\ basename = << >>
  /\ LibPaths = << >>
  /\ result = << >>
  /\ probes = << >>
  /\ libCalls = 0
  /\ InitPath
  /\ IdleTrip
  /\ IdleMkdir
  /\ IdleTemp

\* One call of GetLibraryPath.
GetLibraryPathCall ==
  /\ libCalls < MaxLibCalls
  /\ libCalls' = libCalls + 1
  /\ \E b \in Basenames, dirs \in SeqsUpTo(CallerDirs, MaxLibPaths) :
       \E r \in {GetLibraryPath(files, b, dirs)} :
           /\ basename' = b
           /\ LibPaths' = dirs
           /\ result' = r.path
           /\ probes' = r.probes
  /\ UNCHANGED <<files, pathVars, log, mkVars, tmpVars>>

NextLib == GetLibraryPathCall

SpecLib == InitLib /\ [][NextLib]_vars

\* ------------------------------------------------------ createDirectory
\* Longest path tail (after the drive or host prefix) createDirectory is run on.
MaxRel == 4
\* Largest number of directories that exist before the call.
MaxDirs == 2
\* Calls of createDirectory in one run.
MaxMkCalls == 1

\* strchr(pathname + from, c): the first position >= from holding c, or npos
\* (NULL).
Find(s, c, from) ==
  LET hits == {i \in 0 .. (Len(s) - 1) : i >= from /\ At(s, i) = c}
  IN  IF hits = {} THEN NPOS
      ELSE CHOOSE i \in hits : \A j \in hits : i <= j

\* The file system's name for a directory: repeated '/' count once (the two
\* that open a host name apart) and the name ends in '/'.
RECURSIVE Collapse(_, _)
Collapse(s, i) ==
  IF i > Len(s) THEN << >>
  ELSE IF i > 2 /\ s[i] = "/" /\ s[i - 1] = "/" THEN Collapse(s, i + 1)
  ELSE <<s[i]>> \o Collapse(s, i + 1)

Key(s) ==
  LET c == Collapse(s, 1)
  IN  IF c = << >> \/ c[Len(c)] = "/" THEN c ELSE Append(c, "/")

\* The directory a key lies in; << >> is the current directory.
Parent(key) ==
  LET name == Erase(key, Len(key) - 1)
      slash == RFind(name, "/", Len(name))
  IN  IF slash = NPOS THEN << >> ELSE Erase(name, slash + 1)

NumSlashes(s) == Cardinality({i \in 1 .. Len(s) : s[i] = "/"})

\* What exists without having been created: the current directory, the root,
\* a drive's root, and a host and its shares.
IsRoot(key) ==
  \/ key = << >>
  \/ key = <<"/">>
  \/ Len(key) = 3 /\ key[2] = ":" /\ key[3] = "/"
  \/ Len(key) >= 2 /\ key[1] = "/" /\ key[2] = "/" /\ NumSlashes(key) <= 4

Exists(ds, key) == IsRoot(key) \/ key \in ds

\* Win32 CreateDirectory(pathname, NULL): fails when the directory exists
\* (ERROR_ALREADY_EXISTS), when its parent does not (ERROR_PATH_NOT_FOUND) and
\* when the system refuses; otherwise the directory exists afterwards.
CreateDirectoryOk(ds, pathname, refused) ==
  /\ ~refused
  /\ ~Exists(ds, Key(pathname))
  /\ Exists(ds, Parent(Key(pathname)))

\* "Determine starting point for initial / search": the position of the
\* first component, or npos where the code throws "badly formed remote
\* directory".
FirstComponent(p) ==
  IF Len(p) >= 2 /\ At(p, 0) = "/" /\ At(p, 1) = "/" THEN
    LET host == Find(p, "/", 2)
    IN  IF host = NPOS THEN NPOS
        ELSE
          LET share == Find(p, "/", host + 1)
          IN  IF share = NPOS THEN NPOS
              ELSE IF share + 1 = Len(p) THEN NPOS
              ELSE share + 1
  ELSE
    LET next == IF Len(p) >= 2 /\ At(p, 1) = ":" THEN 2 ELSE 0
    IN  IF next < Len(p) /\ At(p, next) = "/" THEN next + 1 ELSE next

\* The loop "while (*next)" of create_parents: n counts the CreateDirectory
\* calls made so far, refuse is the call the system refuses.
RECURSIVE CreateEach(_, _, _, _, _)
CreateEach(p, next, ds, n, refuse) ==
  IF next >= Len(p) THEN [dirs |-> ds, outcome |-> "true"]
  ELSE
    LET slash == Find(p, "/", next)
        pathname == Erase(p, slash)
    IN  IF ~CreateDirectoryOk(ds, pathname, refuse = n + 1)
        THEN [dirs |-> ds, outcome |-> "throw"]
        ELSE CreateEach(p, slash + 1, ds \cup {Key(pathname)}, n + 1, refuse)

\* Path::createDirectory(create_parents) on the path string p, with ds the
\* directories that exist: the directories afterwards and the outcome.
createDirectory(p, create_parents, ds, refuse) ==
  IF ~isDirectory(p) THEN [dirs |-> ds, outcome |-> "false"]
  ELSE IF FirstComponent(p) = NPOS THEN [dirs |-> ds, outcome |-> "throw"]
  ELSE IF create_parents THEN CreateEach(p, FirstComponent(p), ds, 0, refuse)
  ELSE
    LET pathname == Erase(p, Len(p) - 1)
    IN  IF ~CreateDirectoryOk(ds, pathname, refuse = 1)
        THEN [dirs |-> ds, outcome |-> "throw"]
        ELSE [dirs |-> ds \cup {Key(pathname)}, outcome |-> "true"]

\* The paths the call is made on: a drive or host prefix, or none, and a tail
\* of at most MaxRel characters.
MkPrefixes == {<< >>, <<"/">>, <<"c", ":">>, <<"c", ":", "/">>,
               <<"/", "/", "h", "/", "s", "/">>}

RECURSIVE Tails(_)
Tails(n) ==
  IF n = 0 THEN {<< >>}
  ELSE LET shorter == Tails(n - 1)
       IN  shorter \cup {Append(s, c) : s \in {t \in shorter : Len(t) = n - 1},
                                        c \in {"a", "/"}}

MkPaths == {pre \o t : pre \in MkPrefixes, t \in Tails(MaxRel)}

\* The directories a path names: itself and the directories above it.
RECURSIVE Above(_)
Above(key) == IF IsRoot(key) THEN {} ELSE {key} \cup Above(Parent(key))

DirUniverse == UNION {Above(Key(p)) : p \in {q \in MkPaths : isDirectory(q)}}

\* A file system holds a directory only with the directories above it.
InitMkdir ==
  /\ disk \in {ds \in SubsetsUpTo(DirUniverse, MaxDirs) :
                 \A d \in ds : Exists(ds, Parent(d))}
  /\ mkPath = << >>
  /\ mkParents = FALSE
  /\ mkRefuse = 0
  /\ mkOutcome = "none"
  /\ mkCalls = 0
  /\ InitPath
  /\ IdleTrip
  /\ IdleLib
  /\ IdleTemp

\* One call of createDirectory.
CreateDirectoryCall ==
  /\ mkCalls < MaxMkCalls
  /\ mkCalls' = mkCalls + 1
  /\ \E p \in MkPaths, cp \in BOOLEAN, refuse \in 0 .. 2 :
       \E r \in {createDirectory(p, cp, disk, refuse)} :
         /\ mkPath' = p
         /\ mkParents' = cp
         /\ mkRefuse' = refuse
         /\ disk' = r.dirs
         /\ mkOutcome' = r.outcome
  /\ UNCHANGED <<pathVars, log, libVars, tmpVars>>

NextMkdir == CreateDirectoryCall

SpecMkdir == InitMkdir /\ [][NextMkdir]_vars

\* ------------------------------------------------ GetTemporaryDirectory
\* Calls of GetTemporaryDirectory in one run.
MaxCalls == 3

\* What GetTempPath may write to pathname: a directory ending in '\'.
TempRoots == {<<"c", ":", "\\", "t", "\\">>, <<"\\", "t", "\\">>}
Pids == {"1", "2"}

\* Lines 83-89: result.setDirectory(pathname); sprintf(pathname, "LLVM_%u",
\* GetCurrentProcessId()); result.appendDirectory(pathname).  Neither return
\* value is looked at.
BuildResult(pathname, id) ==
  appendDirectory(setDirectory(<< >>, pathname).path, <<"L", "L", "V", "M", "_", id>>).path

IsPrefix(a, b) == Len(a) <= Len(b) /\ SubSeq(b, 1, Len(a)) = a

\* Path::destroyDirectory(true): the directories that may exist afterwards.
\* "rm -rf" is an external program: it removes the directory with what it
\* holds, or is not there and removes nothing; the call returns either way.
destroyDirectory(p, ds) ==
  IF ~isDirectory(p) THEN {ds}
  ELSE IF ~Exists(ds, Key(p)) THEN {ds}
  ELSE {ds, {d \in ds : ~IsPrefix(Key(p), d)}}

\* Mutant of SeesCache: a thread also takes the cached branch while another
\* thread is initializing (an initialize-once guard).
SeesCacheOrBusy(t) ==
  \/ TempDirectory # NULL
  \/ \E u \in Threads \ {t} : pc[u] \in {"gettemp", "destroy", "create", "store"}

\* Mutant of SeesCache for a single caller: the test is dropped.
SeesCacheNever(t) == FALSE

\* Line 76: if (TempDirectory).
SeesCache(t) == TempDirectory # NULL

\* What a step of GetTemporaryDirectory leaves alone.
TempOthers ==
  UNCHANGED <<pathVars, log, libVars, mkPath, mkParents, mkRefuse, mkOutcome, mkCalls>>

\* The call begins.
Enter(t) ==
  /\ pc[t] = "idle"
  /\ calls < MaxCalls
  /\ calls' = calls + 1
  /\ pc' = [pc EXCEPT ![t] = "check"]
  /\ touched' = [touched EXCEPT ![t] = 0]
  /\ returned' = [returned EXCEPT ![t] = None]
  /\ UNCHANGED <<TempDirectory, pid, local, done, inits, disk>>
  /\ TempOthers

\* Lines 76-77: return the cached Path, or go on to build it.
Check(t) ==
  /\ pc[t] = "check"
  /\ IF SeesCache(t)
     THEN /\ pc' = [pc EXCEPT ![t] = "idle"]
          /\ returned' = [returned EXCEPT ![t] = TempDirectory]
          /\ done' = Append(done, [path |-> TempDirectory, touched |-> touched[t],
                                   thread |-> t])
     ELSE /\ pc' = [pc EXCEPT ![t] = "gettemp"]
          /\ UNCHANGED <<returned, done>>
  /\ UNCHANGED <<TempDirectory, pid, local, touched, calls, inits, disk>>
  /\ TempOthers

\* Lines 79-89: GetTempPath fails and the call throws, or the local result
\* is built.
GetTemp(t) ==
  /\ pc[t] = "gettemp"
  /\ \/ /\ pc' = [pc EXCEPT ![t] = "idle"]
        /\ returned' = [returned EXCEPT ![t] = Thrown]
        /\ UNCHANGED local
     \/ \E pathname \in TempRoots :
          /\ local' = [local EXCEPT ![t] = BuildResult(pathname, pid)]
          /\ pc' = [pc EXCEPT ![t] = "destroy"]
          /\ UNCHANGED returned
  /\ UNCHANGED <<TempDirectory, pid, touched, done, calls, inits, disk>>
  /\ TempOthers

\* Line 93: result.destroyDirectory(true).
Destroy(t) ==
  /\ pc[t] = "destroy"
  /\ disk' \in destroyDirectory(local[t], disk)
  /\ touched' = [touched EXCEPT ![t] = @ + 1]
  /\ pc' = [pc EXCEPT ![t] = "create"]
  /\ UNCHANGED <<TempDirectory, pid, local, returned, done, calls, inits>>
  /\ TempOthers

\* Line 96: result.createDirectory(false); its exception ends the call.
Create(t) ==
  /\ pc[t] = "create"
  /\ touched' = [touched EXCEPT ![t] = @ + 1]
  /\ \E refuse \in {0, 1} :
       \E r \in {createDirectory(local[t], FALSE, disk, refuse)} :
         IF r.outcome = "throw"
         THEN /\ pc' = [pc EXCEPT ![t] = "idle"]
              /\ returned' = [returned EXCEPT ![t] = Thrown]
              /\ UNCHANGED <<disk, inits>>
         ELSE /\ pc' = [pc EXCEPT ![t] = "store"]
              /\ disk' = r.dirs
              /\ inits' = inits + 1
              /\ UNCHANGED returned
  /\ UNCHANGED <<TempDirectory, pid, local, done, calls>>
  /\ TempOthers

\* Line 97: TempDirectory = new Path(result).
Store(t) ==
  /\ pc[t] = "store"
  /\ TempDirectory' = local[t]
  /\ pc' = [pc EXCEPT ![t] = "return"]
  /\ UNCHANGED <<pid, local, returned, touched, done, calls, inits, disk>>
  /\ TempOthers

\* Line 98: return *TempDirectory.
Return(t) ==
  /\ pc[t] = "return"
  /\ returned' = [returned EXCEPT ![t] = TempDirectory]
  /\ done' = Append(done, [path |-> TempDirectory, touched |-> touched[t],
                           thread |-> t])
  /\ pc' = [pc EXCEPT ![t] = "idle"]
  /\ UNCHANGED <<TempDirectory, pid, local, touched, calls, inits, disk>>
  /\ TempOthers

\* The directories GetTempPath names exist; the process's own directory may
\* be left over from an earlier process with the same id.
InitTemp ==
  /\ pid \in Pids
  /\ \E left \in SUBSET {Key(BuildResult(r, pid)) : r \in TempRoots} :
       disk = {Key(FlipBackSlashes(r)) : r \in TempRoots} \cup left
  /\ TempDirectory = NULL
  /\ pc = [t \in Threads |-> "idle"]
  /\ local = [t \in Threads |-> << >>]
  /\ returned = [t \in Threads |-> None]
  /\ touched = [t \in Threads |-> 0]
  /\ done = << >>
  /\ calls = 0
  /\ inits = 0
  /\ mkPath = << >>
  /\ mkParents = FALSE
  /\ mkRefuse = 0
  /\ mkOutcome = "none"
  /\ mkCalls = 0
  /\ InitPath
  /\ IdleTrip
  /\ IdleLib

\* One thread calls, again and again.
NextTemp ==
  \/ Enter(1)
  \/ Check(1)
  \/ GetTemp(1)
  \/ Destroy(1)
  \/ Create(1)
  \/ Store(1)
  \/ Return(1)

SpecTemp == InitTemp /\ [][NextTemp]_vars

\* Every thread calls; the steps of the threads interleave.
NextTempRace ==
  \E t \in Threads :
    \/ Enter(t)
    \/ Check(t)
    \/ GetTemp(t)
    \/ Destroy(t)
    \/ Create(t)
    \/ Store(t)
    \/ Return(t)

SpecTempRace == InitTemp /\ [][NextTempRace]_vars

\* ------------------------------------------------------------------ claims
NoSep(n) == \A i \in 1 .. Len(n) : n[i] \notin {"/", "\\"}
NoSepDot(n) == \A i \in 1 .. Len(n) : n[i] \notin {"/", "\\", "."}

\* C1: between calls the path string is empty or satisfies isValid().
C1_ValidBetweenCalls == path = << >> \/ isValid(path)

\* C2: a mutator that returns false leaves the path string as it found it.
C2_FalseLeavesPath == [][(ret' = FALSE) => (path' = path)]_vars

\* C2 witness: appendDirectory has returned false on a non-empty path.
C2_Witness == op = "appendDirectory" /\ ret = FALSE /\ path # << >>

\* C3: appendDirectory, appendFile and elideDirectory on a file-mode path, and
\* appendSuffix, elideSuffix and elideFile on a directory-mode or empty path,
\* return false and leave the path string unchanged.
C3_ModeGates ==
  [][((\/ /\ op' \in {"appendDirectory", "appendFile", "elideDirectory"}
         /\ isFile(path)
      \/ /\ op' \in {"appendSuffix", "elideSuffix", "elideFile"}
         /\ (isDirectory(path) \/ path = << >>))
     => (ret' = FALSE /\ path' = path))]_vars

\* C4: appendDirectory(n) that succeeds on a directory-mode path p, n a
\* non-empty name without separators, followed by elideDirectory() leaves
\* exactly p.
C4_DirRoundTrip ==
  (/\ Len(log) = 3
   /\ log[3].op = "elideDirectory"
   /\ isDirectory(log[1].path)
   /\ log[2].arg # << >>
   /\ NoSep(log[2].arg)
   /\ log[2].ret)
  => (path = log[1].path)

\* C5: on a directory-mode path p, appendFile(n), appendSuffix(x) that both
\* succeed (n and x without '/' and '.'), then elideSuffix() and elideFile(),
\* leave exactly p, and both elide calls return true.
C5_FileSuffixRoundTrip ==
  (/\ Len(log) = 5
   /\ log[5].op = "elideFile"
   /\ isDirectory(log[1].path)
   /\ NoSepDot(log[2].arg) /\ log[2].ret
   /\ NoSepDot(log[3].arg) /\ log[3].ret)
  => (path = log[1].path /\ log[4].ret /\ log[5].ret)

\* C5 witness: the four calls have run on a directory path with a one-letter
\* name and suffix, and the directory is back.
C5_Witness ==
  /\ Len(log) = 5
  /\ log[5].op = "elideFile"
  /\ isDirectory(log[1].path)
  /\ log[2].arg = <<"a">> /\ log[2].ret
  /\ log[3].arg = <<"a">> /\ log[3].ret
  /\ log[3].path = (log[1].path \o <<"a", ".", "a">>)
  /\ path = log[1].path

\* C6: setDirectory("") returns false; setDirectory(s) that returns true
\* leaves a directory-mode path: the separator-normalized s, with a '/'
\* appended where it did not end in one.
C6_SetDirectoryMakesDirectory ==
  (Len(log) >= 1 /\ log[1].op = "setDirectory")
  => IF log[1].arg = << >> THEN ~log[1].ret
     ELSE log[1].ret =>
            /\ isDirectory(log[1].path)
            /\ log[1].path \in {FlipBackSlashes(log[1].arg),
                                Append(FlipBackSlashes(log[1].arg), "/")}

\* The directories the documented search visits: each caller directory that
\* setDirectory accepts, in list order, then the two system directories.
RECURSIVE DocumentedDirs(_)
DocumentedDirs(dirs) ==
  IF dirs = << >> THEN <<UsrLibDir, LibDir>>
  ELSE LET d == setDirectory(<< >>, Head(dirs))
       IN  (IF d.ret THEN <<d.path>> ELSE << >>) \o DocumentedDirs(Tail(dirs))

\* Every candidate of the documented search, in probing order.
RECURSIVE DocumentedCandidates(_, _)
DocumentedCandidates(dirs, base) ==
  IF dirs = << >> THEN << >>
  ELSE [i \in 1 .. 8 |-> Head(dirs) \o Forms(base)[i]]
         \o DocumentedCandidates(Tail(dirs), base)

FirstReadable(fs, cands) ==
  LET hits == {i \in 1 .. Len(cands) : cands[i] \in fs}
  IN  IF hits = {} THEN << >>
      ELSE cands[CHOOSE i \in hits : \A j \in hits : i <= j]

\* C7: for a basename of letters, GetLibraryPath returns the first readable
\* candidate in the order directories, then lib<basename>.dll/.a/.o/.bc, then
\* <basename>.dll/.a/.o/.bc, and the empty Path exactly when no candidate is
\* readable.
C7_LibrarySearchOrder ==
  (libCalls > 0 /\ \A i \in 1 .. Len(basename) : isalpha(basename[i]))
  => result = FirstReadable(files, DocumentedCandidates(DocumentedDirs(LibPaths), basename))

\* C9: createDirectory(true) on a well-formed directory path, none of whose
\* CreateDirectory calls the system refuses, returns true and leaves every
\* directory of the path existing, whichever of them existed before; and
\* createDirectory(false) throws when the parent is missing.
C9_CreateParentsSkipsExisting ==
  (mkCalls > 0 /\ isDirectory(mkPath) /\ FirstComponent(mkPath) # NPOS)
  => /\ (mkParents /\ mkRefuse = 0)
          => (mkOutcome = "true" /\ \A d \in Above(Key(mkPath)) : d \in disk)
     /\ (~mkParents /\ ~Exists(disk, Parent(Key(mkPath))))
          => mkOutcome = "throw"

\* C8: with one thread, every call after the first that returned normally
\* returns the first call's Path and calls neither destroyDirectory nor
\* createDirectory, and the destroy-then-create sequence completes at most
\* once.
C8_CachedAfterFirstReturn ==
  /\ \A i \in 2 .. Len(done) : done[i].path = done[1].path /\ done[i].touched = 0
  /\ (Len(done) >= 1 /\ pc[1] = "idle") => returned[1] = done[1].path
  /\ inits <= 1

\* C8 witness: a second call has returned the cached Path.
C8_Witness ==
  /\ Len(done) >= 2
  /\ done[1].touched = 2
  /\ done[2].touched = 0
  /\ returned[1] = done[1].path

\* C10: nothing but the unlocked test of TempDirectory decides whether a
\* thread initializes: a thread that leaves the test goes on to build the
\* directory exactly when it read the pointer unset, whatever the other
\* threads are doing.
C10_NoInitGuard ==
  [][\A t \in Threads :
       (pc[t] = "check" /\ pc'[t] # "check")
       => ((pc'[t] = "gettemp") <=> (TempDirectory = NULL))]_vars

\* C10 witness: two threads passed the test with the cache unset and work on
\* the same directory; one has created it and the other has destroyed it
\* again before the first stored the pointer.
C10_Witness ==
  \E t \in Threads, u \in Threads :
    /\ t # u
    /\ pc[t] = "store"
    /\ pc[u] = "create"
    /\ local[t] = local[u]
    /\ ~Exists(disk, Key(local[t]))
    /\ TempDirectory = NULL

====
